---- MODULE Spec2Model ----
(***************************************************************************)
(* The threshold pipeline of src/newTVL2.py: one process run loads the     *)
(* alert state and the history, fetches the protocol list, filters each    *)
(* record, notifies the names not alerted before, saves both stores,       *)
(* publishes, and exits with a code.  The two CSV files are the only state *)
(* that survives a run.                                                    *)
(*                                                                         *)
(* Strings that the code inspects character by character (protocol names,  *)
(* which are stripped and sorted) are sequences of code points.            *)
(***************************************************************************)
EXTENDS Integers, Sequences, FiniteSets

\* ------------------------------------------------------------- bounds
\* Longest fetched list, number of process runs.
MaxFetch == 2
MaxRuns == 2

\* ------------------------------------------------------------- config
TVL_THRESHOLD == 10000000
CATEGORY_FILTER == "Derivatives"

CHAT_IDS == { "chat" }

\* ------------------------------------------------------------- inputs
\* Raw names as the API may give them: "A", " A ", "B", " ".
RawNames == { <<65>>, <<32, 65, 32>>, <<66>>, <<32>> }

\* tvl as json gives it: absent (None), a string, a bool, an int, a float.
TvlValues ==
    { [t |-> "none", v |-> 0],
      [t |-> "str", v |-> 20000000],
      [t |-> "bool", v |-> 1],
      [t |-> "int", v |-> 5000000],
      [t |-> "int", v |-> 15000000],
      [t |-> "float", v |-> 20000000] }

Categories == { "Derivatives", "Dexes" }

\* "" stands for an absent chain key; no claim reads the chain.
Chains == { "" }

ProtocolRecord == [name : RawNames, tvl : TvlValues, category : Categories, chain : Chains]

\* ------------------------------------------------------------- files
Missing == [exists |-> FALSE, rows |-> <<>>]

File(rows) == [exists |-> TRUE, rows |-> rows]

VARIABLES
    alertFile,      \* notified_protocols.csv
    historyFile,    \* protocol_history.csv
    remote,         \* what the API serves, when it is held fixed across runs
    pc,             \* position of the process: idle when none is running
    runs,           \* process runs started so far
    clock,          \* utcnow() of the latest run
    exitCode,       \* exit status of the latest process
    alerted,
    history,        \* insertion-ordered dict: a sequence of entries
    todo,           \* records of protocols the loop has not reached yet
    new_alerts,
    current_time,
    history_saved,
    notified,       \* per trimmed name, the alerts emitted for it in this run
    undelivered,    \* some alert of this run reached no chat id
    loadedAlerted,  \* what load_previous_alerts returned in this run
    alertsRead,     \* load_previous_alerts found no file or read it
    qualifying,     \* trimmed names of the fetched records over the threshold
    repeated,       \* some name had several such records in the fetched list
    prevRun,        \* the previous run: none, aborted, killed, unsaved, saved
    clean           \* no load or save failed and no run was cut between the saves

vars == << alertFile, historyFile, remote, pc, runs, clock, exitCode, alerted,
           history, todo, new_alerts, current_time, history_saved,
           notified, undelivered, loadedAlerted, alertsRead, qualifying,
           repeated, prevRun, clean >>

\* ------------------------------------------------------------- helpers
Range(s) == { s[i] : i \in DOMAIN s }

IsSpace(c) == c \in { 9, 10, 11, 12, 13, 32 }

RECURSIVE LStrip(_)
LStrip(s) == IF s # <<>> /\ IsSpace(Head(s)) THEN LStrip(Tail(s)) ELSE s

RECURSIVE RStrip(_)
RStrip(s) ==
    IF s # <<>> /\ IsSpace(s[Len(s)]) THEN RStrip(SubSeq(s, 1, Len(s) - 1)) ELSE s

\* str.strip()
Strip(s) == RStrip(LStrip(s))

\* str < str: code point by code point, a proper prefix first.
RECURSIVE LexLess(_, _)
LexLess(a, b) ==
    IF b = <<>> THEN FALSE
    ELSE IF a = <<>> THEN TRUE
    ELSE IF Head(a) # Head(b) THEN Head(a) < Head(b)
    ELSE LexLess(Tail(a), Tail(b))

\* sorted(protocols)
RECURSIVE Sorted(_)
Sorted(S) ==
    IF S = {} THEN <<>>
    ELSE LET m == CHOOSE x \in S : \A y \in S : x = y \/ LexLess(x, y)
         IN  <<m>> \o Sorted(S \ {m})

\* isinstance(tvl, (int, float)): bool is a subclass of int.
IsNumber(tvl) == tvl.t \in { "int", "float", "bool" }

\* str(tvl) as csv writes it: an int has no decimal point, a float has one.
FormatTvl(tvl) == [digits |-> tvl.v, point |-> tvl.t = "float"]

\* float(row["tvl"])
ParseTvl(text) == [t |-> "float", v |-> text.digits]

\* protocol.get("chain", "N/A")
GetChain(protocol) == IF protocol.chain = "" THEN "N/A" ELSE protocol.chain

\* The tests with the comparison against the threshold left out.
SkippedNoThreshold(protocol) ==
    \/ Strip(protocol.name) = <<>>
    \/ protocol.category # CATEGORY_FILTER
    \/ ~IsNumber(protocol.tvl)

\* The three `continue` tests of the loop.
Skipped(protocol) ==
    \/ Strip(protocol.name) = <<>>
    \/ protocol.category # CATEGORY_FILTER
    \/ ~IsNumber(protocol.tvl)
    \/ protocol.tvl.v < TVL_THRESHOLD

HistoryNames(h) == { h[i].name : i \in DOMAIN h }

Entry(h, name) == h[CHOOSE i \in DOMAIN h : h[i].name = name]

\* An update that refreshes last_seen and leaves the stored tvl.
UpsertKeepTvl(h, name, tvl, chain, category, now) ==
    IF name \in HistoryNames(h)
    THEN [i \in DOMAIN h |->
            IF h[i].name = name THEN [h[i] EXCEPT !.last_seen = now] ELSE h[i]]
    ELSE Append(h, [name |-> name, tvl |-> tvl, chain |-> chain,
                    category |-> category, first_seen |-> now, last_seen |-> now])

\* history[name] = ... / history[name]["tvl"] = ...
Upsert(h, name, tvl, chain, category, now) ==
    IF name \in HistoryNames(h)
    THEN [i \in DOMAIN h |->
            IF h[i].name = name
            THEN [h[i] EXCEPT !.tvl = tvl, !.last_seen = now]
            ELSE h[i]]
    ELSE Append(h, [name |-> name, tvl |-> tvl, chain |-> chain,
                    category |-> category, first_seen |-> now, last_seen |-> now])

\* A load that takes the first row for a header.
LoadAfterHeader(file, readable) ==
    IF ~file.exists \/ ~readable \/ file.rows = <<>> THEN {}
    ELSE Range(Tail(file.rows))

load_previous_alerts(file, readable) ==
    IF ~file.exists THEN {}
    ELSE IF ~readable THEN {}
    ELSE Range(file.rows)

load_protocol_history(file, readable) ==
    IF ~file.exists THEN <<>>
    ELSE IF ~readable THEN <<>>
    ELSE [i \in DOMAIN file.rows |-> [file.rows[i] EXCEPT !.tvl = ParseTvl(@)]]

\* The rows save_protocol_history writes: history.items(), in dict order.
HistoryRows(h) == [i \in DOMAIN h |-> [h[i] EXCEPT !.tvl = FormatTvl(@)]]

\* The rows save_alerts writes.
AlertRows(names) == Sorted(names)

\* What a failed save leaves: open() failed and the file is as it was, or the
\* write stopped after some of the rows.
FailedWrite(file, rows) ==
    {file} \cup { File(SubSeq(rows, 1, k)) : k \in 0..(Len(rows) - 1) }

\* ------------------------------------------------------------- state
TrimmedNames == { Strip(n) : n \in RawNames } \ { <<>> }

\* Lines 229-232: the records the summary statistic counts.
AboveThreshold(protocol) ==
    /\ protocol.category = CATEGORY_FILTER
    /\ IsNumber(protocol.tvl)
    /\ protocol.tvl.v >= TVL_THRESHOLD

\* A process that is not running holds nothing.
NoProcess ==
    /\ alerted = {}
    /\ history = <<>>
    /\ todo = 0
    /\ new_alerts = {}
    /\ current_time = 0
    /\ history_saved = FALSE
    /\ notified = [n \in TrimmedNames |-> 0]
    /\ undelivered = FALSE
    /\ loadedAlerted = {}
    /\ alertsRead = TRUE
    /\ qualifying = {}
    /\ repeated = FALSE

\* The alert file is one an earlier run (of this script or of its
\* history-less predecessor) left: sorted names, or no file yet.
InitFiles ==
    /\ alertFile \in {Missing} \cup { File(Sorted(S)) : S \in SUBSET TrimmedNames }
    /\ historyFile = Missing

Init ==
    /\ InitFiles
    /\ remote = <<>>
    /\ pc = "idle"
    /\ runs = 0
    /\ clock = 0
    /\ exitCode = 0
    /\ prevRun = "none"
    /\ clean = TRUE
    /\ NoProcess

\* ------------------------------------------------------------- actions
\* A main block that never calls sys.exit.
ExitCodeZero(success) == 0

\* Lines 306-310: sys.exit(1) unless check_new_protocols returned True.
ExitCode(success) == IF ~success THEN 1 ELSE 0

\* The process ends: its memory is gone, the files and the exit status stay.
Forget ==
    /\ alerted' = {}
    /\ history' = <<>>
    /\ todo' = 0
    /\ new_alerts' = {}
    /\ current_time' = 0
    /\ history_saved' = FALSE
    /\ notified' = [n \in TrimmedNames |-> 0]
    /\ undelivered' = FALSE
    /\ loadedAlerted' = {}
    /\ alertsRead' = TRUE
    /\ qualifying' = {}
    /\ repeated' = FALSE

\* Lines 163-171: the two loads, the fetch and the exit on an empty list.
\* len is the length of the fetched list (0 when the fetch failed), aOk and
\* hOk say whether an existing file could be read, now is utcnow().
StartRun(len, aOk, hOk, now) ==
    /\ pc = "idle"
    /\ runs < MaxRuns
    /\ alertFile.exists \/ aOk
    /\ historyFile.exists \/ hOk
    /\ runs' = runs + 1
    /\ clock' = now
    /\ clean' = (clean /\ aOk /\ hOk)
    /\ IF len = 0
       THEN /\ pc' = "idle"
            /\ exitCode' = ExitCode(FALSE)
            /\ prevRun' = "aborted"
            /\ Forget
       ELSE /\ pc' = "loop"
            /\ alerted' = load_previous_alerts(alertFile, aOk)
            /\ loadedAlerted' = load_previous_alerts(alertFile, aOk)
            /\ alertsRead' = aOk
            /\ history' = load_protocol_history(historyFile, hOk)
            /\ todo' = len
            /\ new_alerts' = {}
            /\ current_time' = now
            /\ notified' = [n \in TrimmedNames |-> 0]
            /\ undelivered' = FALSE
            /\ qualifying' = {}
            /\ repeated' = FALSE
            /\ UNCHANGED << history_saved, exitCode, prevRun >>
    /\ UNCHANGED << alertFile, historyFile, remote >>

\* Lines 210-211 and send_telegram_message: the chat ids the alert reached.
\* None when USE_TELEGRAM is off (lines 22-25), otherwise those that
\* answered 200.
Deliveries == { {} } \cup SUBSET CHAT_IDS

\* The alert state as the earlier variant kept it: nothing added in the loop.
AddAlertedNever(names, name) == names

\* Line 214, alerted.add(name).
AddAlerted(names, name) == names \cup {name}

\* Lines 174-214: one iteration of the loop, on the record it has reached.
ProcessRecord(protocol) ==
    /\ pc = "loop"
    /\ todo > 0
    /\ LET name == Strip(protocol.name)
           tvl == protocol.tvl
           category == protocol.category
           chain == GetChain(protocol)
       IN  IF Skipped(protocol)
           THEN UNCHANGED << history, alerted, new_alerts, notified, undelivered >>
           ELSE /\ history' = Upsert(history, name, tvl, chain, category, current_time)
                /\ IF name \notin alerted
                   THEN /\ notified' = [notified EXCEPT ![name] = @ + 1]
                        /\ \E delivered \in Deliveries :
                             undelivered' = (undelivered \/ delivered = {})
                        /\ new_alerts' = new_alerts \cup {name}
                        /\ alerted' = AddAlerted(alerted, name)
                   ELSE UNCHANGED << alerted, new_alerts, notified, undelivered >>
    /\ IF AboveThreshold(protocol) /\ Strip(protocol.name) # <<>>
       THEN /\ qualifying' = qualifying \cup {Strip(protocol.name)}
            /\ repeated' = (repeated \/ Strip(protocol.name) \in qualifying)
       ELSE UNCHANGED << qualifying, repeated >>
    /\ todo' = todo - 1
    /\ pc' = IF todo = 1 THEN "save_history" ELSE "loop"
    /\ UNCHANGED << alertFile, historyFile, remote, runs, clock, exitCode,
                    current_time, history_saved,
                    loadedAlerted, alertsRead, prevRun, clean >>

\* Line 217, save_protocol_history.
SaveHistory ==
    /\ pc = "save_history"
    /\ \/ /\ historyFile' = File(HistoryRows(history))
          /\ history_saved' = TRUE
          /\ clean' = clean
       \/ /\ historyFile' \in FailedWrite(historyFile, HistoryRows(history))
          /\ history_saved' = FALSE
          /\ clean' = FALSE
    /\ pc' = "save_alerts"
    /\ UNCHANGED << alertFile, remote, runs, clock, exitCode, alerted,
                    history, todo, new_alerts, current_time, notified, undelivered,
                    loadedAlerted, alertsRead, qualifying, repeated, prevRun >>

\* Saving only the names alerted in this run.
SavedNewAlerts == new_alerts

\* Line 218: the set handed to save_alerts.
SavedAlerts == alerted

\* What save_alerts can do to the file, and what it returns.
AlertWrites ==
    { [file |-> File(AlertRows(SavedAlerts)), ok |-> TRUE] }
    \cup { [file |-> f, ok |-> FALSE] : f \in FailedWrite(alertFile, AlertRows(SavedAlerts)) }

\* What commit_to_github can meet: no GITHUB_ACTIONS, a clean work tree, a
\* push, a failing git command.
CommitOutcomes == { "not_ci", "nothing_to_commit", "pushed", "failed" }

commit_to_github(outcome) == outcome = "pushed"

\* Line 235, the value check_new_protocols returns.
Success(history_ok, alerts_ok, commit_success) ==
    history_ok /\ alerts_ok /\ commit_success

\* Lines 218-235 and 306-311: save_alerts, the publish step, the return
\* value and the exit of the process.
Finish(write, outcome) ==
    /\ pc = "save_alerts"
    /\ alertFile' = write.file
    /\ clean' = (clean /\ write.ok)
    /\ exitCode' =
          ExitCode(Success(history_saved, write.ok, commit_to_github(outcome)))
    /\ prevRun' = IF write.ok THEN "saved" ELSE "unsaved"
    /\ pc' = "idle"
    /\ Forget
    /\ UNCHANGED << historyFile, remote, runs, clock >>

\* The process is killed between the two saves (lines 217 and 218).
Interrupt ==
    /\ pc = "save_alerts"
    /\ pc' = "idle"
    /\ exitCode' = 1
    /\ prevRun' = "killed"
    /\ clean' = FALSE
    /\ Forget
    /\ UNCHANGED << alertFile, historyFile, remote, runs, clock >>

Times == { clock + 1 }

Next ==
    \/ \E len \in 0..MaxFetch, aOk \in BOOLEAN, hOk \in BOOLEAN, now \in Times :
          StartRun(len, aOk, hOk, now)
    \/ \E protocol \in ProtocolRecord : ProcessRecord(protocol)
    \/ SaveHistory
    \/ \E write \in AlertWrites, outcome \in CommitOutcomes : Finish(write, outcome)
    \/ Interrupt

Spec == Init /\ [][Next]_vars

\* ------------------------------------------------- unchanged remote source
\* The API serves the same non-empty list to every run.
RemoteLists ==
    UNION { [1..n -> ProtocolRecord] : n \in 1..MaxFetch }

InitTwice ==
    /\ InitFiles
    /\ remote \in RemoteLists
    /\ pc = "idle"
    /\ runs = 0
    /\ clock = 0
    /\ exitCode = 0
    /\ prevRun = "none"
    /\ clean = TRUE
    /\ NoProcess

\* Lines 148-159: the body of the answer, or [] on any failure.
fetch_protocols(ok, body) == IF ok THEN body ELSE <<>>

NextTwice ==
    \/ \E ok \in BOOLEAN, aOk \in BOOLEAN, hOk \in BOOLEAN, now \in Times :
          StartRun(Len(fetch_protocols(ok, remote)), aOk, hOk, now)
    \/ ProcessRecord(remote[Len(remote) - todo + 1])
    \/ SaveHistory
    \/ \E write \in AlertWrites, outcome \in CommitOutcomes : Finish(write, outcome)
    \/ Interrupt

SpecTwice == InitTwice /\ [][NextTwice]_vars

\* ------------------------------------------------------------- claims
Running == pc \in { "loop", "save_history", "save_alerts" }

NoAlerts == [n \in TrimmedNames |-> 0]

FileNames(file) == { file.rows[i].name : i \in DOMAIN file.rows }

FileRow(file, name) == file.rows[CHOOSE i \in DOMAIN file.rows : file.rows[i].name = name]

\* C1: in a run, every name that the fetched list holds over the threshold in
\* the filtered category, and that the loaded alert set lacks, gets exactly
\* one alert (also when several such records carry it), and it is in the set
\* handed to save_alerts and in the rows a successful save writes, whatever
\* the delivery did.
C1_AlertedOnce ==
    Running =>
        \A n \in qualifying \ loadedAlerted :
            /\ notified[n] = 1
            /\ n \in SavedAlerts
            /\ n \in Range(AlertRows(SavedAlerts))

C1_Witness ==
    /\ pc = "save_alerts"
    /\ repeated
    /\ undelivered
    /\ \E n \in TrimmedNames :
          /\ qualifying = {n}
          /\ n \notin loadedAlerted
          /\ notified[n] = 1
          /\ n \in SavedAlerts

\* C2: processing a record that passes the filters and whose name was in the
\* loaded alert set emits no alert, sets the tvl of the name's history entry
\* to the fetched tvl and its last_seen to the time of the run; and no name of
\* the loaded alert set is ever alerted in the run.
C2_KnownNameUpdated ==
    [][ /\ \A p \in ProtocolRecord :
              ( /\ pc = "loop"
                /\ AboveThreshold(p)
                /\ Strip(p.name) \in loadedAlerted
                /\ ProcessRecord(p) )
              => /\ notified' = notified
                 /\ Strip(p.name) \in HistoryNames(history')
                 /\ Entry(history', Strip(p.name)).tvl = p.tvl
                 /\ Entry(history', Strip(p.name)).last_seen = current_time
        /\ \A n \in loadedAlerted' \cap TrimmedNames : notified'[n] = 0 ]_vars

C2_Witness ==
    /\ pc = "save_history"
    /\ notified = NoAlerts
    /\ \E n \in loadedAlerted \cap HistoryNames(history) \cap FileNames(historyFile) :
          /\ Entry(history, n).last_seen = current_time
          /\ FileRow(historyFile, n).last_seen < current_time
          /\ Entry(history, n).tvl.v # FileRow(historyFile, n).tvl.digits

C4_EmptyFetchAborts ==
    [][ \A aOk \in BOOLEAN, hOk \in BOOLEAN, now \in Times :
            StartRun(0, aOk, hOk, now)
            => /\ alertFile' = alertFile
               /\ historyFile' = historyFile
               /\ notified' = NoAlerts
               /\ ~history_saved'
               /\ pc' = "idle"
               /\ prevRun' = "aborted"
               /\ exitCode' # 0 ]_vars

C4_Witness ==
    /\ pc = "idle"
    /\ prevRun = "aborted"
    /\ exitCode # 0
    /\ alertFile.rows # <<>>
    /\ historyFile.rows # <<>>

\* C5: a run that fetched a non-empty list exits with 0 exactly when both
\* saves succeeded and the publish step did not fail (it pushed, or it was
\* not applicable: no CI indicator, or nothing to commit).
C5_ExitCodeRule ==
    [][ \A w \in AlertWrites, o \in CommitOutcomes :
            Finish(w, o)
            => ( exitCode' = 0 <=> (history_saved /\ w.ok /\ o # "failed") ) ]_vars

\* C6: a name in the alert file stays in the alert file.
C6_AlertsOnlyGrow ==
    [][ Range(alertFile.rows) \subseteq Range(alertFile'.rows) ]_vars

\* C7: for a name of the history file, first_seen never changes, last_seen
\* never decreases, and first_seen <= last_seen.
C7_SeenTimes ==
    [][ /\ \A n \in FileNames(historyFile) \cap FileNames(historyFile') :
              /\ FileRow(historyFile', n).first_seen = FileRow(historyFile, n).first_seen
              /\ FileRow(historyFile', n).last_seen >= FileRow(historyFile, n).last_seen
        /\ \A n \in FileNames(historyFile') :
              FileRow(historyFile', n).first_seen <= FileRow(historyFile', n).last_seen ]_vars

\* The filters as the claim lists them.
FailsFilter(p) ==
    \/ Strip(p.name) = <<>>
    \/ p.category # CATEGORY_FILTER
    \/ p.tvl.t \notin { "int", "float" }
    \/ p.tvl.v < TVL_THRESHOLD

\* C8: processing a record that fails a filter (blank name, other category,
\* tvl missing or not a number, tvl under the threshold) changes nothing: no
\* alert, no name added to the alert set, no history entry made or updated.
C8_FilteredNoEffect ==
    [][ \A p \in ProtocolRecord :
            (pc = "loop" /\ FailsFilter(p) /\ ProcessRecord(p))
            => UNCHANGED << history, alerted, new_alerts, notified >> ]_vars

C8_Witness ==
    /\ pc = "save_history"
    /\ runs = 2
    /\ qualifying = {}
    /\ notified = NoAlerts
    /\ alerted = loadedAlerted
    /\ alerted # {}
    /\ history # <<>>
    /\ HistoryRows(history) = HistoryRows(load_protocol_history(historyFile, TRUE))

NamesAscend(rows) ==
    \A i \in DOMAIN rows, j \in DOMAIN rows : i < j => LexLess(rows[i].name, rows[j].name)

\* C9: a saved history file has its rows in ascending order of name, and a
\* saved alert file has its names in ascending order.
C9_SortedRows ==
    /\ (pc = "save_alerts" /\ history_saved) => NamesAscend(historyFile.rows)
    /\ (pc = "idle" /\ prevRun = "saved") =>
           \A i \in DOMAIN alertFile.rows, j \in DOMAIN alertFile.rows :
               i < j => LexLess(alertFile.rows[i], alertFile.rows[j])

\* C10: between runs, as long as every load and every save has succeeded and
\* no run was cut between the two saves, every name of the history file is
\* in the alert file.
C10_HistoryWithinAlerts ==
    (pc = "idle" /\ clean) => FileNames(historyFile) \subseteq Range(alertFile.rows)

C10_Witness ==
    /\ pc = "idle"
    /\ clean
    /\ runs = 2
    /\ Cardinality(FileNames(historyFile)) = 2
    /\ FileNames(historyFile) \subseteq Range(alertFile.rows)

====
